---- MODULE Spec2Model ----
(***************************************************************************)
(* Hybrid recommendation service: the review and business feeds, the two   *)
(* model files (recommender.pkl, content_recommender.pkl), the two        *)
(* recommendation stages and their merge (recommender/model.py,            *)
(* recommender/content_based.py), and training (recommender/train.py) as   *)
(* started by POST /retrain and by the review webhook (app/api.py).        *)
(*                                                                         *)
(* Numbers: a collaborative estimate and a cosine similarity are kept in   *)
(* hundredths (350 is 3.50, 100 is 1.00); an accumulated hybrid score      *)
(* 0.7*s1 + 0.3*s2 is kept in thousandths (7*s1 + 3*s2); round(x, 2)       *)
(* takes thousandths back to hundredths.                                   *)
(***************************************************************************)
EXTENDS Integers, Sequences, FiniteSets, TLC

\* ------------------------------------------------------------------ bounds
\* Businesses of the catalogue the business feed is a prefix of.
NumBiz == 6
\* Users that write reviews; user NumUsers + 1 never wrote one.
NumUsers == 2
\* Largest top_n (limit) a request asks for.
MaxTopN == 2
\* Training runs started in one behaviour.
MaxRuns == 2

\* ------------------------------------------------------- program constants
\* train.py: "if len(reviews_df) < 10 or len(businesses_df) < 5"
MinReviews == 10
MinBusinesses == 5
\* model.py: the ensemble weights 0.7 and 0.3, in tenths
CFWeight == 7
CBWeight == 3
\* model.py: top_n*2 is asked of each stage
OverFetch == 2

\* A missing (NaN) cell of a data frame.
NoValue == "<NA>"

Users == 1..(NumUsers + 1)
TopNs == 1..MaxTopN
MaxReviews == MinReviews + 1

\* db.py: the placeholders of fetch_reviews_as_dataframe ('unknown_user',
\* 'unknown_business') and of fetch_businesses_as_dataframe ('Unknown').
UnknownUser == 0
UnknownBusiness == 0
Unknown == "Unknown"

\* ------------------------------------------------------------ the two feeds
\* The business with id b as the business data holds it. Some cells are
\* missing.
Business(b) ==
  [ business_id |-> b,
    name        |-> "biz" \o ToString(b),
    category    |-> IF b % 5 = 0 THEN NoValue
                    ELSE IF b % 3 = 1 THEN "food"
                    ELSE IF b % 3 = 2 THEN "fitness" ELSE "retail",
    description |-> IF b % 2 = 0 THEN "cozy" ELSE NoValue,
    city        |-> IF b % 4 = 0 THEN NoValue
                    ELSE IF b % 2 = 1 THEN "citya" ELSE "cityb",
    rating      |-> 100 * (((b * 7) % 5) + 1) ]

\* The i-th review of the review feed. Users take turns; the reviewed
\* business may be one the business feed does not hold (id NumBiz + 1).
Review(i) ==
  LET u == ((i - 1) % NumUsers) + 1
      j == (i - 1) \div NumUsers
  IN  [ user_id     |-> u,
        business_id |-> ((j * u) % (NumBiz + 1)) + 1,
        rating      |-> ((i * 3) % 5) + 1 ]

BusinessFeed(n) == [i \in 1..n |-> Business(i)]
ReviewFeed(n) == [i \in 1..n |-> Review(i)]

ReviewColumns   == {"user_id", "business_id", "rating", "text"}
BusinessColumns == {"business_id", "name", "category", "description", "city", "rating"}
\* train.py: the columns validate_data is asked for; db.py: required_columns
RequiredReviewColumns   == {"user_id", "business_id", "rating"}
RequiredBusinessColumns == {"business_id", "name", "category"}

RECURSIVE SelectIdx(_, _, _)
\* The indices i of 1..n, ascending, with P[i] true (P a function to BOOLEAN).
SelectIdx(P, i, n) ==
  IF i > n THEN <<>>
  ELSE (IF P[i] THEN <<i>> ELSE <<>>) \o SelectIdx(P, i + 1, n)

\* A data frame: its columns, its rows and the index label of each row. A
\* row keeps a cell for every field; only the cells of the frame's columns
\* are there to read.
IndexedFrame(columns, rows, index) ==
  [columns |-> columns, rows |-> rows, index |-> index]

\* A frame as pd.DataFrame(documents) and pd.read_csv make it: the labels are
\* RangeIndex 0, 1, ...
Frame(columns, rows) ==
  IndexedFrame(columns, rows, [i \in DOMAIN rows |-> i - 1])
\* pd.DataFrame(): no columns, no rows.
EmptyFrame == Frame({}, <<>>)

\* db.fetch_reviews_as_dataframe() on the reviews collection `coll` (a frame
\* of the documents' fields, named as the frame names them): placeholders
\* for a missing user or business id field, the empty frame when there is
\* no document or no rating field.
FetchReviewsAsDataframe(coll) ==
  IF coll.rows = <<>> THEN EmptyFrame
  ELSE IF "rating" \notin coll.columns THEN EmptyFrame
  ELSE Frame(ReviewColumns,
             [i \in DOMAIN coll.rows |->
                [ user_id     |-> IF "user_id" \in coll.columns
                                  THEN coll.rows[i].user_id ELSE UnknownUser,
                  business_id |-> IF "business_id" \in coll.columns
                                  THEN coll.rows[i].business_id ELSE UnknownBusiness,
                  rating      |-> coll.rows[i].rating ]])

\* db.fetch_businesses_as_dataframe() lines 185-187: df[df['status'] ==
\* 'active'] when the documents have a status field. The rows that stay keep
\* the index labels they had.
FilterActive(coll, frame) ==
  IF "status" \notin coll.columns THEN frame
  ELSE LET active == [i \in DOMAIN coll.rows |-> coll.rows[i].status = "active"]
           kept   == SelectIdx(active, 1, Len(coll.rows))
       IN  IndexedFrame(frame.columns,
                        [k \in DOMAIN kept |-> frame.rows[kept[k]]],
                        [k \in DOMAIN kept |-> frame.index[kept[k]]])

\* db.fetch_businesses_as_dataframe() on the businesses collection: the id is
\* the document's _id; city and category default to 'Unknown', rating to 0.0,
\* description to ''; only active businesses when there is a status field;
\* the empty frame when there is no document or no name field.
FetchBusinessesAsDataframe(coll) ==
  IF coll.rows = <<>> THEN EmptyFrame
  ELSE IF "name" \notin coll.columns THEN EmptyFrame
  ELSE FilterActive(coll,
         Frame(BusinessColumns,
             [i \in DOMAIN coll.rows |->
                [ business_id |-> coll.rows[i].business_id,
                  name        |-> coll.rows[i].name,
                  category    |-> IF "category" \in coll.columns
                                  THEN coll.rows[i].category ELSE Unknown,
                  description |-> IF "description" \in coll.columns
                                  THEN coll.rows[i].description ELSE "",
                  city        |-> IF "city" \in coll.columns
                                  THEN coll.rows[i].city ELSE Unknown,
                  rating      |-> IF "rating" \in coll.columns
                                  THEN coll.rows[i].rating ELSE 0 ]]))

\* ------------------------------------------------------------ sequence help
Range(s) == {s[i] : i \in DOMAIN s}

\* A slice that keeps one element too many.
TakeOneMore(s, n) == SubSeq(s, 1, IF n + 1 < Len(s) THEN n + 1 ELSE Len(s))

\* s[:n] for n >= 0.
Take(s, n) == SubSeq(s, 1, IF n < Len(s) THEN n ELSE Len(s))

\* Position of the first element of s with key k under field function f, 0 if none.
FirstPos(keys, k) ==
  IF \E i \in DOMAIN keys : keys[i] = k
  THEN CHOOSE i \in DOMAIN keys : keys[i] = k /\ \A j \in 1..(i - 1) : keys[j] # k
  ELSE 0

\* pandas unique(): the values of s in order of first appearance.
RECURSIVE Unique(_)
Unique(s) ==
  IF s = <<>> THEN <<>>
  ELSE LET front == Unique(SubSeq(s, 1, Len(s) - 1))
           last  == s[Len(s)]
       IN  IF last \in Range(front) THEN front ELSE Append(front, last)

\* A descending sort that puts an element before the elements equal to it.
RECURSIVE SortDescLastFirst(_)
SortDescLastFirst(s) ==
  IF s = <<>> THEN <<>>
  ELSE LET front == SortDescLastFirst(SubSeq(s, 1, Len(s) - 1))
           x     == s[Len(s)]
           k     == Cardinality({i \in DOMAIN front : front[i].score > x.score})
       IN  SubSeq(front, 1, k) \o <<x>> \o SubSeq(front, k + 1, Len(front))

\* list.sort(key, reverse=True) and sorted(..., reverse=True): a stable sort,
\* descending by score; equal scores keep their order in s. Insertion of the
\* last element into the sorted front, after every element that is >= it.
RECURSIVE SortDesc(_)
SortDesc(s) ==
  IF s = <<>> THEN <<>>
  ELSE LET front == SortDesc(SubSeq(s, 1, Len(s) - 1))
           x     == s[Len(s)]
           k     == Cardinality({i \in DOMAIN front : front[i].score >= x.score})
       IN  SubSeq(front, 1, k) \o <<x>> \o SubSeq(front, k + 1, Len(front))

\* numpy argsort() of a short array: ascending by value, equal values in
\* index order. Returns the row indices.
RECURSIVE ArgSort(_, _)
ArgSort(vals, n) ==
  IF n = 0 THEN <<>>
  ELSE LET front == ArgSort(vals, n - 1)
           k     == Cardinality({i \in DOMAIN front : vals[front[i]] <= vals[n]})
       IN  SubSeq(front, 1, k) \o <<n>> \o SubSeq(front, k + 1, Len(front))

Reverse(s) == [i \in 1..Len(s) |-> s[Len(s) + 1 - i]]

\* The slice that takes one element more, a[:-top_n-2:-1].
LastReversedOneMore(a, top_n) == Take(Reverse(a), top_n + 1)

\* a[:-top_n-1:-1] for top_n >= 1: the last top_n elements, last first.
LastReversed(a, top_n) == Take(Reverse(a), top_n)

\* round(x, 2) of a value in thousandths, to hundredths; a value half way
\* goes to the even neighbour.
Round2(x) ==
  LET q == x \div 10
      r == x % 10
  IN  IF r < 5 THEN q
      ELSE IF r > 5 THEN q + 1
      ELSE IF q % 2 = 0 THEN q ELSE q + 1

\* Integer square root.
ISqrt(x) == CHOOSE r \in 0..x : r * r <= x /\ (r + 1) * (r + 1) > x

RECURSIVE SumOver(_, _)
\* The sum of f[t] over the finite set S.
SumOver(f, S) ==
  IF S = {} THEN 0
  ELSE LET t == CHOOSE x \in S : TRUE
       IN  f[t] + SumOver(f, S \ {t})

\* How many times token t occurs in the token sequence doc.
TermCount(doc, t) == Cardinality({i \in DOMAIN doc : doc[i] = t})

\* ------------------------------------------- recommender/content_based.py
\* TfidfVectorizer lowercases its text; the feeds' own tokens are lower case.
Lower(t) == IF t = Unknown THEN "unknown" ELSE t

\* fit(): the text of one business, name + ' ' + category + ' ' + description
\* + ' ' + city after the fillna calls, as its sequence of tokens.
Content(biz) ==
  <<biz.name>>
  \o <<IF biz.category = NoValue THEN Lower(Unknown) ELSE Lower(biz.category)>>
  \o (IF biz.description \in {NoValue, ""} THEN <<>> ELSE <<biz.description>>)
  \o <<IF biz.city = NoValue THEN Lower(Unknown) ELSE Lower(biz.city)>>

\* fit() on a frame: the fitted content model. business_profiles keeps the
\* rows of the business feed at fit time, tfidf_matrix has one row per
\* business, by position, and business_indices gives for each row the index
\* label the frame had for it (pd.Series(df.index, index=df['business_id'])).
FitFrame(df) ==
  [ business_profiles |-> df.rows,
    tfidf_matrix      |-> [i \in DOMAIN df.rows |-> Content(df.rows[i])],
    business_indices  |-> df.index ]

\* fit() on rows that are labelled 0, 1, ...
Fit(businesses_df) == FitFrame(Frame(BusinessColumns, businesses_df))

\* The vectorizer's vocabulary: the tokens of the fitted corpus.
Vocabulary(model) ==
  UNION {Range(model.tfidf_matrix[i]) : i \in DOMAIN model.tfidf_matrix}

\* cosine_similarity of a query text and a fitted row, in hundredths. Terms
\* count by frequency; a query token outside the vocabulary is dropped by
\* vectorizer.transform. (The idf factor of each term is positive and is left
\* out: it rescales a term, it neither creates nor removes an overlap.)
CosineSimilarity(query, doc, vocab) ==
  LET qc  == [t \in vocab |-> TermCount(query, t)]
      dc  == [t \in vocab |-> TermCount(doc, t)]
      dot == SumOver([t \in vocab |-> qc[t] * dc[t]], vocab)
      nq2 == SumOver([t \in vocab |-> qc[t] * qc[t]], vocab)
      nd2 == SumOver([t \in vocab |-> dc[t] * dc[t]], vocab)
  IN  IF dot = 0 THEN 0
      ELSE ISqrt((10000 * dot * dot) \div (nq2 * nd2))

\* recommend_for_user_profile(): (business_id, similarity) of the top_n rows
\* most similar to the profile text, best first.
RecommendForUserProfile(model, user_profile, top_n) ==
  IF user_profile.empty THEN <<>>
  ELSE
    LET joined  == user_profile.preferred_categories
                   \o user_profile.preferred_cities
                   \o user_profile.interests
        content == [i \in DOMAIN joined |-> Lower(joined[i])]
    IN  IF content = <<>> THEN <<>>
        ELSE
          LET vocab == Vocabulary(model)
              rows  == model.tfidf_matrix
              sim_scores == [i \in DOMAIN rows |->
                               CosineSimilarity(content, rows[i], vocab)]
              similar_indices ==
                LastReversed(ArgSort(sim_scores, Len(rows)), top_n)
          IN  [k \in DOMAIN similar_indices |->
                 [ business_id |-> model.business_profiles[similar_indices[k]].business_id,
                   score       |-> sim_scores[similar_indices[k]] ]]

\* recommend_similar_businesses(): [] for an id the index does not hold;
\* otherwise idx is the index label kept for the business, the query vector is
\* the matrix row at position idx (IndexError when there is no such row), the
\* top_n positions by similarity are taken, best first, and then the position
\* equal to idx is dropped. Positions count from 0 in the code and from 1
\* here.
RecommendSimilarBusinesses(model, business_id, top_n) ==
  LET rows == model.tfidf_matrix
      ids  == [i \in DOMAIN rows |-> model.business_profiles[i].business_id]
      at   == FirstPos(ids, business_id)
  IN  IF at = 0 THEN [raised |-> "none", recommendations |-> <<>>]
      ELSE
        LET idx == model.business_indices[at]
        IN  IF idx + 1 \notin DOMAIN rows
            THEN [raised |-> "IndexError", recommendations |-> <<>>]
            ELSE
              LET vocab == Vocabulary(model)
                  sim_scores == [i \in DOMAIN rows |->
                                   CosineSimilarity(rows[idx + 1], rows[i], vocab)]
                  top == LastReversed(ArgSort(sim_scores, Len(rows)), top_n)
                  others == SelectIdx([k \in DOMAIN top |-> top[k] - 1 # idx],
                                      1, Len(top))
                  similar_indices == Take([k \in DOMAIN others |-> top[others[k]]], top_n)
              IN  [raised |-> "none",
                   recommendations |->
                     [k \in DOMAIN similar_indices |->
                        [ business_id |-> ids[similar_indices[k]],
                          score       |-> sim_scores[similar_indices[k]] ]]]

\* The keys weighted by the number of reviews instead of their ratings.
RECURSIVE WeightedKeysByCount(_, _, _)
WeightedKeysByCount(user_reviews, businesses_df, col) ==
  IF user_reviews = <<>> THEN <<>>
  ELSE
    LET front  == WeightedKeysByCount(SubSeq(user_reviews, 1, Len(user_reviews) - 1),
                                      businesses_df, col)
        review == user_reviews[Len(user_reviews)]
        ids    == [i \in DOMAIN businesses_df |-> businesses_df[i].business_id]
        pos    == FirstPos(ids, review.business_id)
    IN  IF pos = 0 THEN front
        ELSE
          LET key == businesses_df[pos][col]
              at  == FirstPos([i \in DOMAIN front |-> front[i].key], key)
          IN  IF key = NoValue THEN front
              ELSE IF at = 0
                THEN Append(front, [key |-> key, score |-> 1])
                ELSE [front EXCEPT ![at].score = @ + 1]

\* build_user_profile(): the dict insertion order of the weighted keys is
\* the order in which the user's reviews first meet them.
RECURSIVE WeightedKeys(_, _, _)
\* The keys (category or city, field col) that the reviews meet, with the
\* sum of the ratings of the reviews that meet them: a sequence of
\* [key, score] in first-met order.
WeightedKeys(user_reviews, businesses_df, col) ==
  IF user_reviews = <<>> THEN <<>>
  ELSE
    LET front  == WeightedKeys(SubSeq(user_reviews, 1, Len(user_reviews) - 1),
                               businesses_df, col)
        review == user_reviews[Len(user_reviews)]
        ids    == [i \in DOMAIN businesses_df |-> businesses_df[i].business_id]
        pos    == FirstPos(ids, review.business_id)
    IN  IF pos = 0 THEN front
        ELSE
          LET key == businesses_df[pos][col]
              at  == FirstPos([i \in DOMAIN front |-> front[i].key], key)
          IN  IF key = NoValue THEN front
              ELSE IF at = 0
                THEN Append(front, [key |-> key, score |-> review.rating])
                ELSE [front EXCEPT ![at].score = @ + review.rating]

\* build_user_profile() from the user's reviews on.
ProfileOf(user_reviews, businesses_df) ==
  LET reviewed_ids == {user_reviews[k].business_id : k \in DOMAIN user_reviews}
      reviewed == SelectIdx([i \in DOMAIN businesses_df |->
                               businesses_df[i].business_id \in reviewed_ids],
                            1, Len(businesses_df))
      withCat == SelectIdx([k \in DOMAIN reviewed |->
                              businesses_df[reviewed[k]].category # NoValue],
                           1, Len(reviewed))
      categories == [k \in DOMAIN withCat |-> businesses_df[reviewed[withCat[k]]].category]
      cats   == SortDesc(WeightedKeys(user_reviews, businesses_df, "category"))
      cities == SortDesc(WeightedKeys(user_reviews, businesses_df, "city"))
  IN  IF user_reviews = <<>>
      THEN [ empty |-> TRUE, preferred_categories |-> <<>>,
             preferred_cities |-> <<>>, interests |-> <<>> ]
      ELSE [ empty |-> FALSE,
             preferred_categories |-> [k \in DOMAIN cats |-> cats[k].key],
             preferred_cities     |-> [k \in DOMAIN cities |-> cities[k].key],
             interests            |-> categories ]

\* A profile built from every review of the feed, whoever wrote it.
BuildUserProfileOfAll(user_id, reviews_df, businesses_df) ==
  ProfileOf(reviews_df, businesses_df)

\* build_user_profile(): the profile of the reviews by user_id.
BuildUserProfile(user_id, reviews_df, businesses_df) ==
  LET mine == SelectIdx([i \in DOMAIN reviews_df |-> reviews_df[i].user_id = user_id],
                        1, Len(reviews_df))
  IN  ProfileOf([k \in DOMAIN mine |-> reviews_df[mine[k]]], businesses_df)

\* ------------------------------------------------------ recommender/model.py
\* The state of a model file on disk: absent, unreadable (joblib.load
\* raises), or the pickle that training run `run` saved.
NoModel == Fit(<<>>)
Absent  == [state |-> "absent",  run |-> 0, model |-> NoModel]
Corrupt == [state |-> "corrupt", run |-> 0, model |-> NoModel]
Saved(run, model) == [state |-> "ok", run |-> run, model |-> model]

\* load_collaborative_model() and load_content_model(): the model, or None
\* (here FALSE) when the file is absent or fails to load.
LoadModel(file) == file.state = "ok"

\* model.predict(user_id, biz).est of the predictor fitted by run `run`, in
\* hundredths: some rating estimate in [1.00, 5.00], the same on every call.
Predict(run, user_id, biz) == 100 + 125 * ((run + user_id * biz) % 4)

BusinessIds(businesses_df) ==
  [i \in DOMAIN businesses_df |-> businesses_df[i].business_id]

\* get_collaborative_recommendations(): (business_id, est, name, rating) of
\* the top_n unrated businesses by estimate; [] when the model or the data
\* is missing or anything raises.
GetCollaborativeRecommendations(user_id, top_n, file, up, df, businesses_df) ==
  IF ~LoadModel(file) THEN <<>>
  ELSE IF ~up THEN <<>>
  ELSE IF df = <<>> \/ businesses_df = <<>> THEN <<>>
  ELSE
    LET rated == {df[i].business_id : i \in {j \in DOMAIN df : df[j].user_id = user_id}}
        all_biz == Unique(BusinessIds(businesses_df))
        keep == SelectIdx([i \in DOMAIN all_biz |-> all_biz[i] \notin rated],
                          1, Len(all_biz))
        candidates == [k \in DOMAIN keep |-> all_biz[keep[k]]]
        predictions ==
          [k \in DOMAIN candidates |->
             LET biz_data == businesses_df[FirstPos(BusinessIds(businesses_df),
                                                    candidates[k])]
             IN  [ business_id |-> candidates[k],
                   score       |-> Predict(file.run, user_id, candidates[k]),
                   name        |-> biz_data.name,
                   rating      |-> biz_data.rating ]]
    IN  Take(SortDesc(predictions), top_n)

\* get_content_recommendations(): the rows recommend_for_user_profile gives
\* for the user's profile that the business feed still holds, with the
\* name and rating of the feed.
GetContentRecommendations(user_id, top_n, file, up, reviews_df, businesses_df) ==
  IF ~LoadModel(file) THEN <<>>
  ELSE IF ~up THEN <<>>
  ELSE IF reviews_df = <<>> \/ businesses_df = <<>> THEN <<>>
  ELSE
    LET user_profile == BuildUserProfile(user_id, reviews_df, businesses_df)
    IN  IF user_profile.empty THEN <<>>
        ELSE
          LET cb_recs == RecommendForUserProfile(file.model, user_profile, top_n)
              ids     == BusinessIds(businesses_df)
              found   == SelectIdx([k \in DOMAIN cb_recs |->
                                      FirstPos(ids, cb_recs[k].business_id) # 0],
                                   1, Len(cb_recs))
          IN  [k \in DOMAIN found |->
                 LET rec == cb_recs[found[k]]
                     biz_data == businesses_df[FirstPos(ids, rec.business_id)]
                 IN  [ business_id |-> rec.business_id,
                       score       |-> rec.score,
                       name        |-> biz_data.name,
                       rating      |-> biz_data.rating ]]

\* recommend_for_user(), first loop: combined_scores[biz_id] = 0.7 * score.
RECURSIVE AddCollaborative(_)
AddCollaborative(cf) ==
  IF cf = <<>> THEN <<>>
  ELSE
    LET front == AddCollaborative(SubSeq(cf, 1, Len(cf) - 1))
        rec   == cf[Len(cf)]
        at    == FirstPos([i \in DOMAIN front |-> front[i].business_id], rec.business_id)
        entry == [rec EXCEPT !.score = CFWeight * rec.score]
    IN  IF at = 0 THEN Append(front, entry)
        ELSE [front EXCEPT ![at] = entry]

\* A content-stage entry that replaces the accumulated score of its id.
AddContentEntryOverwrite(combined, rec) ==
  LET at == FirstPos([i \in DOMAIN combined |-> combined[i].business_id],
                     rec.business_id)
  IN  IF at # 0
      THEN [combined EXCEPT ![at].score = CBWeight * rec.score]
      ELSE Append(combined, [rec EXCEPT !.score = CBWeight * rec.score])

\* The update of one content-stage entry: added to the accumulated score of
\* an id the mapping already holds, inserted fresh otherwise.
AddContentEntry(combined, rec) ==
  LET at == FirstPos([i \in DOMAIN combined |-> combined[i].business_id],
                     rec.business_id)
  IN  IF at # 0
      THEN [combined EXCEPT ![at].score = @ + CBWeight * rec.score]
      ELSE Append(combined, [rec EXCEPT !.score = CBWeight * rec.score])

\* recommend_for_user(), second loop, over the content-stage entries.
RECURSIVE AddContent(_, _)
AddContent(combined, cb) ==
  IF cb = <<>> THEN combined
  ELSE AddContentEntry(AddContent(combined, SubSeq(cb, 1, Len(cb) - 1)), cb[Len(cb)])

\* recommend_for_user(), model.py lines 189-232: the merge proper.
MergeCombined(cf, cb, top_n) ==
    LET combined == AddContent(AddCollaborative(cf), cb)
        sorted_recommendations == Take(SortDesc(combined), top_n)
    IN  [k \in DOMAIN sorted_recommendations |->
           [ business_id      |-> sorted_recommendations[k].business_id,
             name             |-> sorted_recommendations[k].name,
             rating           |-> sorted_recommendations[k].rating,
             predicted_rating |-> Round2(sorted_recommendations[k].score) ]]

\* A merge that gives up as soon as one stage is empty.
MergeNeedsBoth(cf, cb, top_n) ==
  IF cf = <<>> \/ cb = <<>> THEN <<>> ELSE MergeCombined(cf, cb, top_n)

\* recommend_for_user() from the two stage results on: an empty response
\* when both are empty; else merge, sort by the accumulated score, keep
\* top_n, round.
MergeRecommendations(cf, cb, top_n) ==
  IF cf = <<>> /\ cb = <<>> THEN <<>> ELSE MergeCombined(cf, cb, top_n)

\* api.get_recommendations(), methods "collaborative" and "content": the
\* stage's tuples as Business entries, predicted_rating = round(score, 2).
\* A stage score is in hundredths already.
FormatStage(raw_recommendations) ==
  [k \in DOMAIN raw_recommendations |->
     [ business_id      |-> raw_recommendations[k].business_id,
       name             |-> raw_recommendations[k].name,
       rating           |-> raw_recommendations[k].rating,
       predicted_rating |-> Round2(10 * raw_recommendations[k].score) ]]

\* -------------------------------------------------------------------- state
VARIABLES
  mongo,          \* MongoDB: reachable or not, the reviews and businesses collections
  csv,            \* data/reviews.csv and data/businesses.csv: there or not, their frames
  cfFile,         \* models/recommender.pkl
  cbFile,         \* models/content_recommender.pkl
  versions,       \* runs that left a models/recommender_<timestamp>.pkl
  tasks,          \* tasks[r]: training run r (a call of train_model), its position
  loop,           \* the handler the event loop is running, or "idle"
  args,           \* the recommendation request being served
  cf_recommendations,  \* recommend_for_user: result of the collaborative stage
  cb_recommendations,  \* recommend_for_user: result of the content stage
  loaded,         \* per stage, the state and run of the file the request loaded
  response,       \* the recommendations the request returns
  health,         \* the last answer of GET /health
  webhook         \* the last request to POST /webhook and its answer

feedVars == <<mongo, csv>>
fileVars == <<cfFile, cbFile, versions>>
reqVars  == <<args, cf_recommendations, cb_recommendations, loaded, response, health,
             webhook>>
vars == <<mongo, csv, cfFile, cbFile, versions, tasks, loop, args,
          cf_recommendations, cb_recommendations, loaded, response, health, webhook>>

Methods == {"hybrid", "collaborative", "content"}
Runs == 1..MaxRuns

NoArgs == [pc |-> "idle", user_id |-> 0, top_n |-> 0, method |-> "none",
           use_mongodb |-> FALSE, status |-> 0]
NotLoaded == [cf |-> "none", cfRun |-> 0, cb |-> "none", cbRun |-> 0]
NoFeed == [there |-> FALSE, review_columns |-> {}, business_columns |-> {},
           reviews |-> 0, businesses |-> 0]
NoTask == [pc |-> "none", use_mongodb |-> FALSE, via |-> "none", error |-> "none",
           feed |-> NoFeed, reviews_df |-> EmptyFrame, businesses_df |-> EmptyFrame,
           wrote |-> {}, clobbered |-> FALSE, answer |-> 0]
NoHealth == [code |-> 0, body |-> [status |-> "none"]]
NoWebhook == [secret |-> "none", payload |-> [object |-> FALSE, event |-> <<>>, data |-> "none"],
              status |-> 0]
NoCsv == [there |-> FALSE, reviews |-> EmptyFrame, businesses |-> EmptyFrame]

NoMongo == [up |-> FALSE, reviews |-> EmptyFrame, businesses |-> EmptyFrame]

\* The frames a stage of the request reads: MongoDB's or the CSV files', as
\* use_mongodb says; ok is FALSE when the read raises (MongoDB does not
\* answer, no file). The fall-back of api.get_recommendations() and
\* api.retrain() to the CSV files never happens: get_mongo_client() keeps the
\* client the module start-up made, whether or not its ping was answered, and
\* returns it without a ping.
RequestData ==
  IF args.use_mongodb
  THEN [ok |-> mongo.up,
        reviews    |-> FetchReviewsAsDataframe(mongo.reviews),
        businesses |-> FetchBusinessesAsDataframe(mongo.businesses)]
  ELSE [ok |-> csv.there, reviews |-> csv.reviews, businesses |-> csv.businesses]

\* The rows of a frame for code that reads the columns `needed` of it: a
\* missing column is a KeyError, which the stage catches and answers [].
RowsWith(frame, needed) ==
  IF needed \subseteq frame.columns THEN frame.rows ELSE <<>>

\* The business rows for a stage; "name" and "rating" are read only if the
\* frame has them (biz_data["name"] if "name" in biz_data else None).
BusinessRows(frame, needed) ==
  LET rows == RowsWith(frame, needed)
  IN  [i \in DOMAIN rows |->
         [rows[i] EXCEPT !.name   = IF "name" \in frame.columns THEN @ ELSE NoValue,
                         !.rating = IF "rating" \in frame.columns THEN @ ELSE 0]]

\* ------------------------------------------------- a recommendation request
\* api.get_recommendations(user_id, limit, method, use_mongodb) starts on the
\* event loop.
GetRecommendations(user_id, top_n, method, use_mongodb) ==
  /\ loop = "idle"
  /\ loop' = "request"
  /\ args' = [pc |-> IF method = "hybrid" THEN "cf" ELSE method,
              user_id |-> user_id, top_n |-> top_n, method |-> method,
              use_mongodb |-> use_mongodb, status |-> 0]
  /\ cf_recommendations' = <<>>
  /\ cb_recommendations' = <<>>
  /\ loaded' = NotLoaded
  /\ response' = <<>>
  /\ UNCHANGED <<feedVars, fileVars, tasks, health, webhook>>

\* api.get_recommendations() lines 110-115: the status its except clauses
\* give an exception raised in its try block: 404 for FileNotFoundError, 500
\* for any other Exception, fastapi's HTTPException among them.
GetRecommendationsExcept(exception) ==
  IF exception = "FileNotFoundError" THEN 404 ELSE 500

\* api.get_recommendations() lines 104-108: an empty list raises
\* HTTPException(404) inside the try block; otherwise the list is returned
\* with 200.
GetRecommendationsAnswer(recommendations) ==
  IF recommendations = <<>> THEN GetRecommendationsExcept("HTTPException")
  ELSE 200

\* The collaborative stage as a request runs it now.
CollaborativeStage(top_n) ==
  GetCollaborativeRecommendations(
    args.user_id, top_n, cfFile, RequestData.ok,
    RowsWith(RequestData.reviews, {"user_id", "business_id"}),
    BusinessRows(RequestData.businesses, {"business_id"}))

\* The content stage as a request runs it now.
ContentStage(top_n) ==
  GetContentRecommendations(
    args.user_id, top_n, cbFile, RequestData.ok,
    RowsWith(RequestData.reviews, {"user_id", "business_id", "rating"}),
    BusinessRows(RequestData.businesses, {"business_id", "category", "city"}))

\* recommend_for_user(), model.py line 176: the collaborative stage, asked
\* for top_n*2 entries.
HybridCollaborative ==
  /\ loop = "request" /\ args.pc = "cf"
  /\ cf_recommendations' = CollaborativeStage(OverFetch * args.top_n)
  /\ loaded' = [loaded EXCEPT !.cf = cfFile.state, !.cfRun = cfFile.run]
  /\ args' = [args EXCEPT !.pc = "cb"]
  /\ UNCHANGED <<feedVars, fileVars, tasks, loop, health, webhook, cb_recommendations, response>>

\* recommend_for_user(), model.py line 179: the content stage.
HybridContent ==
  /\ loop = "request" /\ args.pc = "cb"
  /\ cb_recommendations' = ContentStage(OverFetch * args.top_n)
  /\ loaded' = [loaded EXCEPT !.cb = cbFile.state, !.cbRun = cbFile.run]
  /\ args' = [args EXCEPT !.pc = "merge"]
  /\ UNCHANGED <<feedVars, fileVars, tasks, loop, health, webhook, cf_recommendations, response>>

\* recommend_for_user(), model.py lines 181-238: merge and return.
HybridMerge ==
  /\ loop = "request" /\ args.pc = "merge"
  /\ response' = MergeRecommendations(cf_recommendations, cb_recommendations, args.top_n)
  /\ args' = [args EXCEPT !.pc = "done", !.status = GetRecommendationsAnswer(response')]
  /\ UNCHANGED <<feedVars, fileVars, tasks, loop, health, webhook, cf_recommendations,
                 cb_recommendations, loaded>>

\* api.get_recommendations(), method "collaborative".
CollaborativeOnly ==
  /\ loop = "request" /\ args.pc = "collaborative"
  /\ cf_recommendations' = CollaborativeStage(args.top_n)
  /\ response' = FormatStage(cf_recommendations')
  /\ loaded' = [loaded EXCEPT !.cf = cfFile.state, !.cfRun = cfFile.run]
  /\ args' = [args EXCEPT !.pc = "done", !.status = GetRecommendationsAnswer(response')]
  /\ UNCHANGED <<feedVars, fileVars, tasks, loop, health, webhook, cb_recommendations>>

\* api.get_recommendations(), method "content".
ContentOnly ==
  /\ loop = "request" /\ args.pc = "content"
  /\ cb_recommendations' = ContentStage(args.top_n)
  /\ response' = FormatStage(cb_recommendations')
  /\ loaded' = [loaded EXCEPT !.cb = cbFile.state, !.cbRun = cbFile.run]
  /\ args' = [args EXCEPT !.pc = "done", !.status = GetRecommendationsAnswer(response')]
  /\ UNCHANGED <<feedVars, fileVars, tasks, loop, health, webhook, cf_recommendations>>

\* The handler returns `response`; its locals go and the event loop is free.
RequestReturns ==
  /\ loop = "request" /\ args.pc = "done"
  /\ loop' = "idle"
  /\ args' = NoArgs
  /\ cf_recommendations' = <<>>
  /\ cb_recommendations' = <<>>
  /\ loaded' = NotLoaded
  /\ response' = <<>>
  /\ UNCHANGED <<feedVars, fileVars, tasks, health, webhook>>

\* api.health_check(): whether the two data files and the two model files
\* exist, and whether MongoDB answers a ping (any exception there is caught);
\* nothing in the outer try block raises, so the answer is this body, with
\* status 200.
HealthCheck ==
  /\ loop = "idle"
  /\ health' = [code |-> 200,
                body |-> [status |-> "healthy",
                          data_files_exist |-> csv.there,
                          model_files_exist |-> cfFile.state # "absent"
                                                 /\ cbFile.state # "absent",
                          mongodb_connected |-> mongo.up,
                          version |-> "1.1.0"]]
  /\ UNCHANGED <<feedVars, fileVars, tasks, loop, args, cf_recommendations,
                 cb_recommendations, loaded, response, webhook>>

Request ==
  \/ HybridCollaborative
  \/ HybridContent
  \/ HybridMerge
  \/ CollaborativeOnly
  \/ ContentOnly
  \/ RequestReturns

\* ------------------------------------------------------------ initial states
\* Nothing is running.
InitIdle ==
  /\ tasks = [r \in Runs |-> NoTask]
  /\ loop = "idle"
  /\ args = NoArgs
  /\ cf_recommendations = <<>>
  /\ cb_recommendations = <<>>
  /\ loaded = NotLoaded
  /\ response = <<>>
  /\ health = NoHealth
  /\ webhook = NoWebhook
  /\ versions = {}

\* The content model files a stage may find: none, an unreadable one, or one
\* fitted on the first k businesses (the feed at that time) for k near n.
ContentFiles(n) ==
  {Absent, Corrupt}
  \cup {Saved(0, Fit(BusinessFeed(k))) : k \in {n - 1, n, n + 1} \cap (1..NumBiz)}

CollaborativeFiles == {Absent, Corrupt} \cup {Saved(r, NoModel) : r \in {0, MaxRuns}}

\* Ranking: any feed with all its fields, in MongoDB with no CSV files, or in
\* the CSV files with MongoDB down; any pair of model files.
InitRank ==
  /\ InitIdle
  /\ \E n \in 0..MaxReviews, m \in 0..NumBiz :
       LET r == Frame(ReviewColumns, ReviewFeed(n))
           b == Frame(BusinessColumns, BusinessFeed(m))
       IN  /\ \/ mongo = [up |-> TRUE, reviews |-> r, businesses |-> b] /\ csv = NoCsv
              \/ mongo = NoMongo /\ csv = [there |-> TRUE, reviews |-> r, businesses |-> b]
           /\ cbFile \in ContentFiles(m)
  /\ cfFile \in CollaborativeFiles

NextRank ==
  \/ \E u \in Users, n \in TopNs, m \in Methods, mdb \in BOOLEAN :
       GetRecommendations(u, n, m, mdb)
  \/ Request

SpecRank == InitRank /\ [][NextRank]_vars

\* ------------------------------------------------------ recommender/train.py
Final == {"done", "skipped", "failed"}
Running(r) == tasks[r].pc \notin (Final \cup {"none"})

\* The next run to start: runs start in order.
NextRun == CHOOSE r \in Runs : tasks[r].pc = "none" /\ \A q \in 1..(r - 1) : tasks[q].pc # "none"

CanStart == \E r \in Runs : tasks[r].pc = "none"

NewTask(use_mongodb, via) ==
  [NoTask EXCEPT !.pc = "load", !.use_mongodb = use_mongodb, !.via = via]

\* api.retrain(use_mongodb): the handler runs on the event loop and calls
\* train_model(use_mongodb) itself. Its check of MongoDB (lines 125-132) gets
\* the client kept since start-up and so never turns use_mongodb off.
Retrain(use_mongodb) ==
  /\ loop = "idle"
  /\ CanStart
  /\ loop' = "retrain"
  /\ tasks' = [tasks EXCEPT ![NextRun] = NewTask(use_mongodb, "retrain")]
  /\ UNCHANGED <<feedVars, fileVars, reqVars>>

\* api.retrain() lines 134-148: the status the handler answers with when
\* train_model has returned (200, also when it returned early) or raised
\* (400 for a ValueError, 500 for any other exception).
RetrainAnswer(task) ==
  IF task.pc # "failed" THEN 200
  ELSE IF task.error = "ValueError" THEN 400
  ELSE 500

\* api.retrain(): train_model has returned or raised; the handler answers.
RetrainReturns ==
  /\ loop = "retrain"
  /\ \E r \in Runs :
       /\ tasks[r].via = "retrain" /\ tasks[r].answer = 0
       /\ tasks[r].pc \in Final
       /\ tasks' = [tasks EXCEPT ![r].answer = RetrainAnswer(tasks[r])]
  /\ loop' = "idle"
  /\ UNCHANGED <<feedVars, fileVars, reqVars>>

\* os.environ.get("WEBHOOK_SECRET", "default-webhook-secret").
ExpectedSecret == "default-webhook-secret"

\* request.headers.get("X-Webhook-Secret") when the request has no such header.
NoHeader == "None"

\* payload.get("event") or payload.get("data") when the payload has no such
\* key, the empty dict a payload may give as its data, and some data.
None == "None"
EmptyData == "{}"
SomeData == "{'reviewId': 'r1'}"

\* An event name as its segments between dots: "review.created" is
\* <<"review", "created">>, "" is <<"">>; no event key is <<>>.
NoEvent == <<>>

\* The X-Webhook-Secret headers, event names and data of the requests.
Secrets == {ExpectedSecret, "wrong-secret", NoHeader}
Events ==
  { NoEvent, <<"">>, <<"review", "created">>, <<"serviceReview", "created">>,
    <<"business", "updated">>, <<"review">>, <<"reviews", "created">> }
Datas == {None, EmptyData, SomeData}

\* The body of a request: a JSON object with or without event and data, or a
\* body request.json() does not make a dict of (no JSON, a JSON list).
NotAnObject == [object |-> FALSE, event |-> NoEvent, data |-> None]
Payload(event, data) == [object |-> TRUE, event |-> event, data |-> data]

\* The payloads of the requests: every event name with some data, a review
\* event with every kind of data, the empty object, and a body that is not
\* an object.
Payloads ==
  {NotAnObject, Payload(NoEvent, None)}
  \cup {Payload(e, SomeData) : e \in Events}
  \cup {Payload(<<"review", "created">>, d) : d \in Datas}

\* The requests to POST /webhook: every payload with the expected secret,
\* and with another or no secret a review event, the empty object and a
\* body that is not an object.
WebhookRequests ==
  {[secret |-> ExpectedSecret, payload |-> p] : p \in Payloads}
  \cup {[secret |-> s, payload |-> p] :
          s \in Secrets \ {ExpectedSecret},
          p \in {Payload(<<"review", "created">>, SomeData), Payload(NoEvent, None),
                  NotAnObject}}

\* "not event": no event key (None) and the empty string are false.
NotEvent(event) == event \in {NoEvent, <<"">>}

\* "not data": no data key (None) and the empty dict are false.
NotData(data) == data \in {None, EmptyData}

\* event.startswith(prefix + "."): the name has a dot and its first segment
\* is the prefix.
StartsWith(event, prefix) == Len(event) >= 2 /\ event[1] = prefix

\* The event names that schedule retraining (line 203).
IsReviewEvent(event) == StartsWith(event, "review") \/ StartsWith(event, "serviceReview")

\* api.handle_webhook(): the status the handler answers with: 401 when the
\* header is not the expected secret, 500 when reading the payload raises
\* (caught by "except Exception"), 400 when event or data is missing or
\* empty, else 200.
WebhookAnswer(secret, payload) ==
  IF secret # ExpectedSecret THEN 401
  ELSE IF ~payload.object THEN 500
  ELSE IF NotEvent(payload.event) \/ NotData(payload.data) THEN 400
  ELSE 200

\* A handler that starts training for a review event whatever the secret.
StartsTrainingUnchecked(secret, payload) ==
  payload.object /\ IsReviewEvent(payload.event)

\* api.handle_webhook() lines 203-212: the request reaches thread.start().
StartsTraining(secret, payload) ==
  WebhookAnswer(secret, payload) = 200 /\ IsReviewEvent(payload.event)

\* api.handle_webhook(): with the right secret (else 401) and a payload that
\* has an event and data (else 400), a review event starts train_model() in a
\* new thread, with no check for a run in flight; any other event starts
\* nothing.
HandleWebhook(secret, payload) ==
  LET starts == StartsTraining(secret, payload)
  IN  /\ loop = "idle"
      /\ starts => CanStart
      /\ tasks' = IF starts
                  THEN [tasks EXCEPT ![NextRun] = NewTask(TRUE, "webhook")]
                  ELSE tasks
      /\ webhook' = [secret |-> secret, payload |-> payload,
                     status |-> WebhookAnswer(secret, payload)]
      /\ UNCHANGED <<feedVars, fileVars, loop, args, cf_recommendations,
                     cb_recommendations, loaded, response, health>>

\* validate_data() of both CSV files: they are there and have the required
\* columns; otherwise RuntimeError (its "except Exception" wraps the
\* ValueError it raised for the missing column, and a failed read).
ValidateData ==
  /\ csv.there
  /\ RequiredReviewColumns \subseteq csv.reviews.columns
  /\ RequiredBusinessColumns \subseteq csv.businesses.columns

\* train_model() lines 52-72: whether loading the data raises, for run r.
LoadRaises(r) ==
  IF tasks[r].use_mongodb THEN ~mongo.up ELSE ~ValidateData

\* train_model() lines 56-57 and 70-71: the two frames run r trains on.
TrainingReviews(r) ==
  IF tasks[r].use_mongodb THEN FetchReviewsAsDataframe(mongo.reviews) ELSE csv.reviews
TrainingBusinesses(r) ==
  IF tasks[r].use_mongodb THEN FetchBusinessesAsDataframe(mongo.businesses)
  ELSE csv.businesses

\* The feed run r reads, as it is at the source: whether it is there, the
\* fields of the documents or the columns of the files, and the row counts.
FeedOf(r) ==
  LET src == IF tasks[r].use_mongodb
             THEN [there |-> mongo.up, reviews |-> mongo.reviews,
                   businesses |-> mongo.businesses]
             ELSE csv
  IN  IF ~src.there THEN NoFeed
      ELSE [there |-> TRUE,
            review_columns |-> src.reviews.columns,
            business_columns |-> src.businesses.columns,
            reviews |-> Len(src.reviews.rows),
            businesses |-> Len(src.businesses.rows)]

\* The volume check with "and" for "or".
TooLittleDataBoth(reviews_df, businesses_df) ==
  Len(reviews_df.rows) < MinReviews /\ Len(businesses_df.rows) < MinBusinesses

\* train_model() line 75: not enough data.
TooLittleData(reviews_df, businesses_df) ==
  Len(reviews_df.rows) < MinReviews \/ Len(businesses_df.rows) < MinBusinesses

\* train_model() lines 52-77: load the data (MongoDB, with the CSV backup
\* written; or the validated CSV files), then the volume check.
TrainLoad(r) ==
  /\ tasks[r].pc = "load"
  /\ tasks' = [tasks EXCEPT ![r] =
       IF LoadRaises(r)
       THEN [@ EXCEPT !.pc = "failed",
                      !.feed = FeedOf(r),
                      !.error = IF tasks[r].use_mongodb THEN "ServerSelectionTimeoutError"
                                ELSE "RuntimeError"]
       ELSE [@ EXCEPT !.pc = IF TooLittleData(TrainingReviews(r), TrainingBusinesses(r))
                             THEN "skipped" ELSE "fit_cf",
                      !.feed = FeedOf(r),
                      !.reviews_df = TrainingReviews(r),
                      !.businesses_df = TrainingBusinesses(r)]]
  /\ csv' = IF tasks[r].use_mongodb /\ mongo.up
            THEN [there |-> TRUE, reviews |-> TrainingReviews(r),
                  businesses |-> TrainingBusinesses(r)]
            ELSE csv
  /\ UNCHANGED <<mongo, fileVars, loop, reqVars>>

\* The runs that have file `f` ("cf" or "cb") open for writing.
Writers(f) == {q \in Runs : tasks[q].pc = "dump_" \o f}

\* Run r opens file f with "wb": the file is truncated under every run
\* that is writing it, and what they still write lands in r's bytes.
OpenForWrite(r, f) ==
  [q \in Runs |->
     IF q = r
     THEN [tasks[q] EXCEPT !.pc = "dump_" \o f,
                           !.wrote = @ \cup {f},
                           !.clobbered = Writers(f) # {}]
     ELSE IF q \in Writers(f) THEN [tasks[q] EXCEPT !.clobbered = TRUE]
     ELSE tasks[q]]

\* What run r leaves in a file when its dump ends: its pickle; when another
\* writer's bytes got mixed in, or another run is still writing the file,
\* possibly an unreadable file.
Dumped(r, f, pickle) ==
  IF tasks[r].clobbered \/ Writers(f) # {r} THEN {pickle, Corrupt} ELSE {pickle}

\* train_model() lines 79-89 and save_model_with_version() up to line 38:
\* fit the SVD model, write recommender_<timestamp>.pkl, open recommender.pkl.
TrainFitCollaborative(r) ==
  /\ tasks[r].pc = "fit_cf"
  /\ versions' = versions \cup {r}
  /\ cfFile' = Corrupt
  /\ tasks' = OpenForWrite(r, "cf")
  /\ UNCHANGED <<feedVars, cbFile, loop, reqVars>>

\* save_model_with_version() lines 38-41: the dump into recommender.pkl ends.
TrainDumpCollaborative(r) ==
  /\ tasks[r].pc = "dump_cf"
  /\ cfFile' \in Dumped(r, "cf", Saved(r, NoModel))
  /\ tasks' = [tasks EXCEPT ![r].pc = "fit_cb", ![r].clobbered = FALSE]
  /\ UNCHANGED <<feedVars, cbFile, versions, loop, reqVars>>

\* ContentBasedRecommender.fit() reads these columns of businesses_df.
FitColumns == {"business_id", "name", "category", "description", "city"}

\* train_model() lines 92-98: fit the content model (KeyError when the frame
\* lacks a column fit reads), then save() opens content_recommender.pkl.
TrainFitContent(r) ==
  /\ tasks[r].pc = "fit_cb"
  /\ IF FitColumns \subseteq tasks[r].businesses_df.columns
     THEN /\ cbFile' = Corrupt
          /\ tasks' = OpenForWrite(r, "cb")
     ELSE /\ cbFile' = cbFile
          /\ tasks' = [tasks EXCEPT ![r].pc = "failed", ![r].error = "KeyError"]
  /\ UNCHANGED <<feedVars, cfFile, versions, loop, reqVars>>

\* ContentBasedRecommender.save(): the dump into content_recommender.pkl ends;
\* train_model returns.
TrainDumpContent(r) ==
  /\ tasks[r].pc = "dump_cb"
  /\ cbFile' \in Dumped(r, "cb", Saved(r, FitFrame(tasks[r].businesses_df)))
  /\ tasks' = [tasks EXCEPT ![r].pc = "done", ![r].clobbered = FALSE]
  /\ UNCHANGED <<feedVars, cfFile, versions, loop, reqVars>>

Train(r) ==
  \/ TrainLoad(r)
  \/ TrainFitCollaborative(r)
  \/ TrainDumpCollaborative(r)
  \/ TrainFitContent(r)
  \/ TrainDumpContent(r)

\* ------------------------------------------------ training, one run at a time
\* The shapes a collection or CSV file of reviews may have: all columns, or
\* one required column missing.
ReviewShapes ==
  {ReviewColumns} \cup {ReviewColumns \ {c} : c \in RequiredReviewColumns}

\* The shapes of the business data: all columns, or one column missing
\* that training reads.
BusinessShapes ==
  {BusinessColumns} \cup {BusinessColumns \ {c} : c \in FitColumns}

\* Feed sizes around the volume thresholds, and the empty feed.
ReviewSizes == {0, MinReviews - 1, MinReviews}
BusinessSizes == {0, MinBusinesses - 1, MinBusinesses}

\* A document of the businesses collection always has its _id.
MongoBusinessShapes == {bs \in BusinessShapes : "business_id" \in bs}

\* The model files before a run: none yet, or the pair an earlier
\* deployment's training left.
FilesBefore ==
  \/ cfFile = Absent /\ cbFile = Absent
  \/ cfFile = Saved(0, NoModel) /\ cbFile = Saved(0, Fit(BusinessFeed(NumBiz)))

\* Training alone: the data is in MongoDB (and no CSV file yet), or in
\* uploaded CSV files with MongoDB down, or nowhere.
InitTrain ==
  /\ InitIdle
  /\ FilesBefore
  /\ \E n \in ReviewSizes, m \in BusinessSizes, rs \in ReviewShapes, bs \in BusinessShapes :
       LET r == Frame(rs, ReviewFeed(n))
           b == Frame(bs, BusinessFeed(m))
       IN  \/ /\ bs \in MongoBusinessShapes
               /\ mongo = [up |-> TRUE, reviews |-> r, businesses |-> b]
               /\ csv = NoCsv
           \/ mongo = NoMongo /\ csv = [there |-> TRUE, reviews |-> r, businesses |-> b]
           \/ mongo = NoMongo /\ csv = NoCsv

NextTrain ==
  \/ \E m \in BOOLEAN : Retrain(m)
  \/ RetrainReturns
  \/ \E r \in Runs : Train(r)

SpecTrain == InitTrain /\ [][NextTrain]_vars

\* Health checks between trainings.
NextHealth ==
  \/ HealthCheck
  \/ NextTrain

SpecHealth == InitTrain /\ [][NextHealth]_vars

\* ------------------------------------------------- the content index alone
\* A document of the businesses collection with a status field.
BusinessDocument(b, status) ==
  [f \in DOMAIN Business(b) \cup {"status"} |->
     IF f = "status" THEN status ELSE Business(b)[f]]

\* How many documents of a collection may be other than active.
MaxInactive == 2

\* The businesses collections the index is fitted on: the first m businesses,
\* their documents without a status field, or with one, a few of them not
\* active.
BusinessCollections ==
  {Frame(BusinessColumns, BusinessFeed(m)) : m \in 1..NumBiz}
  \cup {Frame(BusinessColumns \cup {"status"},
               [i \in 1..m |-> BusinessDocument(i, IF i \in inactive THEN "pending"
                                                   ELSE "active")]) :
          m \in 1..NumBiz,
          inactive \in {x \in SUBSET (1..NumBiz) : Cardinality(x) <= MaxInactive}}

\* The profile text of the spec's scenario, "Food CityA".
FoodCityA ==
  [ empty |-> FALSE, preferred_categories |-> <<"food">>,
    preferred_cities |-> <<"citya">>, interests |-> <<>> ]

\* The sizes of the review feed the profiles are built from: no review, a
\* few, all.
IndexReviewSizes == {0, MinReviews \div 2, MaxReviews}

\* The content index as ContentBasedRecommender.fit() builds it from the
\* businesses train_model fetched (fit needs a business to fit on), with the
\* reviews in MongoDB.
InitIndex ==
  /\ InitIdle
  /\ csv = NoCsv
  /\ cfFile = Absent
  /\ \E coll \in BusinessCollections, n \in IndexReviewSizes :
       /\ mongo = [up |-> TRUE, reviews |-> Frame(ReviewColumns, ReviewFeed(n)),
                   businesses |-> coll]
       /\ FetchBusinessesAsDataframe(coll).rows # <<>>
       /\ cbFile = Saved(0, FitFrame(FetchBusinessesAsDataframe(coll)))

\* A call of recommend_similar_businesses(business_id, top_n) on the index.
SimilarBusinesses(business_id, top_n) ==
  LET result == RecommendSimilarBusinesses(cbFile.model, business_id, top_n)
  IN  /\ args = NoArgs
      /\ args' = [pc |-> "done", method |-> "similar", business_id |-> business_id,
                  top_n |-> top_n, raised |-> result.raised]
      /\ response' = result.recommendations
      /\ UNCHANGED <<feedVars, fileVars, tasks, loop, health, webhook, cf_recommendations,
                     cb_recommendations, loaded>>

\* The profile of user `who` of the review feed; of nobody (0), the
\* scenario's.
ProfileFor(who) ==
  IF who = 0 THEN FoodCityA
  ELSE BuildUserProfile(who, FetchReviewsAsDataframe(mongo.reviews).rows,
                        FetchBusinessesAsDataframe(mongo.businesses).rows)

\* A call of recommend_for_user_profile(user_profile, top_n) on the index,
\* with the profile of `who`.
ForUserProfile(who, top_n) ==
  /\ args = NoArgs
  /\ args' = [pc |-> "done", method |-> "profile", user_id |-> who,
              user_profile |-> ProfileFor(who), top_n |-> top_n]
  /\ response' = RecommendForUserProfile(cbFile.model, ProfileFor(who), top_n)
  /\ UNCHANGED <<feedVars, fileVars, tasks, loop, health, webhook, cf_recommendations,
                 cb_recommendations, loaded>>

\* The call has returned; its caller is done with the result.
CallReturns ==
  /\ loop = "idle" /\ args.pc = "done"
  /\ args' = NoArgs
  /\ response' = <<>>
  /\ UNCHANGED <<feedVars, fileVars, tasks, loop, health, webhook, cf_recommendations,
                 cb_recommendations, loaded>>

\* The top_n of a call on the index: up to one more than a request's, so
\* that a result of similar businesses can hold two entries after the query
\* business.
IndexTopNs == 1..(MaxTopN + 1)

NextIndex ==
  \/ \E b \in 1..(NumBiz + 1), n \in IndexTopNs : SimilarBusinesses(b, n)
  \/ \E who \in Users \cup {0}, n \in IndexTopNs : ForUserProfile(who, n)
  \/ CallReturns

SpecIndex == InitIndex /\ [][NextIndex]_vars

\* ------------------------------------- the service: requests and training
\* The service with its data in MongoDB, enough of it to train on, or with
\* MongoDB down and uploaded CSV files whose business file has no description
\* column; the model files absent or left by an earlier training.
Init ==
  /\ InitIdle
  /\ FilesBefore
  /\ \/ /\ mongo = [up |-> TRUE,
                    reviews |-> Frame(ReviewColumns, ReviewFeed(MinReviews)),
                    businesses |-> Frame(BusinessColumns, BusinessFeed(MinBusinesses))]
        /\ csv = NoCsv
     \/ /\ mongo = NoMongo
        /\ csv = [there |-> TRUE,
                  reviews |-> Frame(ReviewColumns, ReviewFeed(MinReviews)),
                  businesses |-> Frame(BusinessColumns \ {"description"},
                                       BusinessFeed(MinBusinesses))]

\* The webhook the service gets while it trains and answers requests: a
\* review was created.
ReviewCreated == Payload(<<"review", "created">>, SomeData)

Next ==
  \/ \E u \in 1..NumUsers, m \in Methods, mdb \in BOOLEAN :
       GetRecommendations(u, 1, m, mdb)
  \/ Request
  \/ HandleWebhook(ExpectedSecret, ReviewCreated)
  \/ \E m \in BOOLEAN : Retrain(m)
  \/ RetrainReturns
  \/ \E r \in Runs : Train(r)

Spec == Init /\ [][Next]_vars

\* ------------------------------------------------- the webhook and its threads
\* The service right after its first deployment: no model file yet, the
\* data in MongoDB.
InitWebhook ==
  /\ InitIdle
  /\ cfFile = Absent /\ cbFile = Absent
  /\ mongo = [up |-> TRUE,
              reviews |-> Frame(ReviewColumns, ReviewFeed(MinReviews)),
              businesses |-> Frame(BusinessColumns, BusinessFeed(MinBusinesses))]
  /\ csv = NoCsv

\* The webhook requests of every kind, with the training threads they start.
NextWebhook ==
  \/ \E request \in WebhookRequests : HandleWebhook(request.secret, request.payload)
  \/ \E r \in Runs : Train(r)

SpecWebhook == InitWebhook /\ [][NextWebhook]_vars

\* ------------------------------------------------------------------ ranking
\* A request has its result: the handler is about to return `response`.
Done(method) == loop = "request" /\ args.pc = "done" /\ args.method = method

AnyDone == loop = "request" /\ args.pc = "done"

\* The business ids the review feed holds a review of by user_id.
RatedBy(user_id) ==
  LET rows == RequestData.reviews.rows
  IN  {rows[i].business_id : i \in {j \in DOMAIN rows : rows[j].user_id = user_id}}

\* The score a stage result gives business b, -1 when it does not hold b.
StageScore(recs, b) ==
  IF \E k \in DOMAIN recs : recs[k].business_id = b
  THEN recs[CHOOSE k \in DOMAIN recs : recs[k].business_id = b].score
  ELSE -1

StageIds(recs) == {recs[k].business_id : k \in DOMAIN recs}

\* C1: a recommendation request with top_n >= 1 returns at most top_n
\* entries, by the hybrid, the collaborative-only and the content-only method.
C1_AtMostTopN ==
  AnyDone => Len(response) <= args.top_n

\* A hybrid request that had more merged entries than top_n returned top_n.
C1_Witness ==
  /\ Done("hybrid")
  /\ Len(response) = args.top_n
  /\ Cardinality(StageIds(cf_recommendations) \cup StageIds(cb_recommendations))
       > args.top_n

\* C2: the hybrid result holds no business the user has a review of in the
\* review feed.
C2_NeverRated ==
  Done("hybrid") =>
    \A k \in DOMAIN response : response[k].business_id \notin RatedBy(args.user_id)

\* C3: in the hybrid result an entry has predicted score
\* round(0.7*s1 + 0.3*s2, 2) when both stages returned it, round(0.7*s1, 2)
\* when only the collaborative stage did, round(0.3*s2, 2) when only the
\* content stage did.
C3_MergeWeighting ==
  Done("hybrid") =>
    \A k \in DOMAIN response :
      LET b  == response[k].business_id
          s1 == StageScore(cf_recommendations, b)
          s2 == StageScore(cb_recommendations, b)
      IN  /\ s1 >= 0 \/ s2 >= 0
          /\ (s1 >= 0 /\ s2 >= 0) =>
               response[k].predicted_rating = Round2(CFWeight * s1 + CBWeight * s2)
          /\ (s1 >= 0 /\ s2 < 0) =>
               response[k].predicted_rating = Round2(CFWeight * s1)
          /\ (s1 < 0 /\ s2 >= 0) =>
               response[k].predicted_rating = Round2(CBWeight * s2)

\* The hybrid result holds an entry of both stages with a positive
\* similarity whose sum is not a whole number of hundredths, an entry of the
\* collaborative stage alone, and one of the content stage alone.
C3_Witness ==
  /\ Done("hybrid")
  /\ \E k \in DOMAIN response :
       LET s1 == StageScore(cf_recommendations, response[k].business_id)
           s2 == StageScore(cb_recommendations, response[k].business_id)
       IN  s1 > 0 /\ s2 > 0 /\ (CFWeight * s1 + CBWeight * s2) % 10 # 0
  /\ \E k \in DOMAIN response :
       /\ StageScore(cf_recommendations, response[k].business_id) > 0
       /\ StageScore(cb_recommendations, response[k].business_id) < 0

\* The hybrid result holds an entry that only the content stage returned.
C3_WitnessContentOnly ==
  /\ Done("hybrid")
  /\ cf_recommendations # <<>>
  /\ \E k \in DOMAIN response :
       /\ StageScore(cf_recommendations, response[k].business_id) < 0
       /\ StageScore(cb_recommendations, response[k].business_id) > 0

Min(a, b) == IF a < b THEN a ELSE b

\* C6: a stage whose model file is absent or fails to load yields nothing;
\* the hybrid result then holds the other stage's entries (as many as top_n
\* allows), and it is empty exactly when both stages yield nothing.
C6_StageDegrades ==
  Done("hybrid") =>
    /\ loaded.cf # "ok" => cf_recommendations = <<>>
    /\ loaded.cb # "ok" => cb_recommendations = <<>>
    /\ loaded.cf # "ok" =>
         /\ Len(response) = Min(args.top_n, Len(cb_recommendations))
         /\ \A k \in DOMAIN response :
              \E j \in DOMAIN cb_recommendations :
                /\ cb_recommendations[j].business_id = response[k].business_id
                /\ response[k].predicted_rating =
                     Round2(CBWeight * cb_recommendations[j].score)
    /\ loaded.cb # "ok" =>
         /\ Len(response) = Min(args.top_n, Len(cf_recommendations))
         /\ \A k \in DOMAIN response :
              \E j \in DOMAIN cf_recommendations :
                /\ cf_recommendations[j].business_id = response[k].business_id
                /\ response[k].predicted_rating =
                     Round2(CFWeight * cf_recommendations[j].score)
    /\ (response = <<>>) <=> (cf_recommendations = <<>> /\ cb_recommendations = <<>>)

\* The content model failed to load and the collaborative stage's entries
\* came back.
C6_Witness ==
  /\ Done("hybrid")
  /\ loaded.cb = "corrupt"
  /\ loaded.cf = "ok"
  /\ response # <<>>

\* The collaborative model file is absent and the content stage's entries
\* came back.
C6_WitnessContent ==
  /\ Done("hybrid")
  /\ loaded.cf = "absent"
  /\ loaded.cb = "ok"
  /\ response # <<>>

\* C7: for a user with no review in the review feed the content stage
\* contributes nothing and every returned entry is a collaborative-stage
\* entry with score round(0.7*s1, 2).
C7_NoReviews ==
  (Done("hybrid") /\ RatedBy(args.user_id) = {}) =>
    /\ cb_recommendations = <<>>
    /\ \A k \in DOMAIN response :
         \E j \in DOMAIN cf_recommendations :
           /\ cf_recommendations[j].business_id = response[k].business_id
           /\ response[k].predicted_rating =
                Round2(CFWeight * cf_recommendations[j].score)

\* A user without reviews got collaborative entries while the review feed
\* had reviews of others and the content model was loaded.
C7_Witness ==
  /\ Done("hybrid")
  /\ RatedBy(args.user_id) = {}
  /\ RequestData.ok /\ RequestData.reviews.rows # <<>>
  /\ loaded.cb = "ok"
  /\ response # <<>>

\* ----------------------------------------------------------------- training
\* C4: training never runs concurrently with itself: while one train_model
\* run (started by POST /retrain or by a review webhook) is in flight, no
\* second run is in flight, so two runs never interleave their writes to the
\* model files.
C4_OneRunInFlight ==
  \A r, q \in Runs : (Running(r) /\ Running(q)) => r = q

\* C5: a finished hybrid request that loaded both models loaded them from
\* the same training run, in every interleaving with training and after a
\* run that raised part-way.
C5_SameRunPair ==
  (Done("hybrid") /\ loaded.cf = "ok" /\ loaded.cb = "ok")
    => loaded.cfRun = loaded.cbRun

\* C8: a run that has loaded fewer than 10 reviews or fewer than 5
\* businesses is skipped, the step that skips it leaves recommender.pkl,
\* content_recommender.pkl and the versioned files as they were, and a
\* skipped run does nothing more.
C8_SkippedLeavesModels ==
  [][\A r \in Runs :
       /\ ( /\ tasks[r].pc = "load" /\ tasks'[r].pc # "load"
            /\ ~LoadRaises(r)
            /\ \/ Len(TrainingReviews(r).rows) < MinReviews
               \/ Len(TrainingBusinesses(r).rows) < MinBusinesses )
          => /\ tasks'[r].pc = "skipped"
             /\ tasks'[r].wrote = {}
             /\ fileVars' = fileVars
       /\ tasks[r].pc = "skipped"
          => (tasks'[r].pc = "skipped" /\ tasks'[r].wrote = {})]_vars

\* A run was skipped for one business too few, with enough reviews, while a
\* saved model pair was in place.
C8_Witness ==
  \E r \in Runs :
    /\ tasks[r].pc = "skipped"
    /\ Len(tasks[r].reviews_df.rows) = MinReviews
    /\ Len(tasks[r].businesses_df.rows) = MinBusinesses - 1
    /\ cfFile = Saved(0, NoModel) /\ cbFile.state = "ok"

\* C9: a run that read an empty business feed ends with a failure raised to
\* its caller (it does not return normally), having written no model file.
C9_EmptyBusinessFeedRaises ==
  \A r \in Runs :
    (tasks[r].pc \in Final /\ tasks[r].feed.there /\ tasks[r].feed.businesses = 0)
      => (tasks[r].pc = "failed" /\ tasks[r].wrote = {})

\* C10: a run whose review feed lacks user_id, business_id or rating, or
\* whose business feed lacks business_id, name or category, stops before any
\* fitting and opens neither model file for writing, whether the feed is the
\* CSV files or MongoDB.
C10_MissingColumnAborts ==
  \A r \in Runs :
    ( /\ tasks[r].feed.there
      /\ \/ ~(RequiredReviewColumns \subseteq tasks[r].feed.review_columns)
         \/ ~(RequiredBusinessColumns \subseteq tasks[r].feed.business_columns) )
      => (tasks[r].pc \in {"failed", "skipped"} /\ tasks[r].wrote = {})

\* A required column is missing from the feed run r read.
MissingRequiredColumn(r) ==
  /\ tasks[r].feed.there
  /\ \/ ~(RequiredReviewColumns \subseteq tasks[r].feed.review_columns)
     \/ ~(RequiredBusinessColumns \subseteq tasks[r].feed.business_columns)

\* C11: when a run started by retrain fails because a required column is
\* missing from its feed, retrain answers 400 (data validation error), never
\* 500 (failed to train model).
C11_ValidationAnswers400 ==
  \A r \in Runs :
    (tasks[r].answer # 0 /\ tasks[r].pc = "failed" /\ MissingRequiredColumn(r))
      => tasks[r].answer = 400

\* ------------------------------------------------------------ the endpoints
\* C12: a finished recommendation request is answered 200 or 404: 200 when
\* the list has an entry, 404 when it is empty.
C12_Answers200Or404 ==
  AnyDone =>
    /\ args.status \in {200, 404}
    /\ args.status = 200 <=> response # <<>>

\* C13: a health check is answered 200 with a body that is exactly
\* {"status": "healthy"}, whatever the data files, model files and database.
C13_HealthBodyIsStatusOnly ==
  health # NoHealth =>
    (health.code = 200 /\ health.body = [status |-> "healthy"])

\* ---------------------------------------------------------- the content index
\* A call of the index of kind `method` has returned.
Called(method) == loop = "idle" /\ args.pc = "done" /\ args.method = method

\* The business ids of the fitted index, in corpus order.
IndexedIds ==
  [i \in DOMAIN cbFile.model.business_profiles |->
     cbFile.model.business_profiles[i].business_id]

ResponseIds == [k \in DOMAIN response |-> response[k].business_id]

\* C14: recommend_similar_businesses(b, top_n) for an indexed b returns
\* without raising a list that does not hold b; for a b that is not indexed
\* it returns the empty list without raising.
C14_SimilarExcludesQuery ==
  Called("similar") =>
    /\ args.raised = "none"
    /\ args.business_id \notin Range(ResponseIds)
    /\ args.business_id \notin Range(IndexedIds) => response = <<>>

\* C15: recommend_for_user_profile on an index of k businesses, for a profile
\* with text, returns at most min(top_n, k) entries, each with a business id of
\* the fitted feed, none twice.
C15_ProfileResultBounded ==
  (Called("profile") /\ ~args.user_profile.empty)
    => /\ Len(response) <= Min(args.top_n, Len(IndexedIds))
       /\ Range(ResponseIds) \subseteq Range(IndexedIds)
       /\ Cardinality(Range(ResponseIds)) = Len(response)

\* The index holds fewer businesses than asked for and the profile query
\* returned them all.
C15_Witness ==
  /\ Called("profile") /\ ~args.user_profile.empty
  /\ Len(IndexedIds) < args.top_n
  /\ Len(response) = Len(IndexedIds)

\* The position in the corpus of the business with this id (0: not indexed).
CorpusPos(business_id) == FirstPos(IndexedIds, business_id)

\* The cosine similarity of the indexed businesses at positions i and j.
Similarity(i, j) ==
  CosineSimilarity(cbFile.model.tfidf_matrix[i], cbFile.model.tfidf_matrix[j],
                   Vocabulary(cbFile.model))

\* C17: for an indexed b and an index of at least top_n + 1 businesses,
\* recommend_similar_businesses(b, top_n) returns exactly top_n entries, none
\* of them b, in descending order of cosine similarity to b, and no business
\* left out is more similar to b than one returned.
C17_SimilarReturnsTopN ==
  LET b  == CorpusPos(args.business_id)
      at == [k \in DOMAIN response |-> CorpusPos(response[k].business_id)]
  IN  (Called("similar") /\ b # 0 /\ Len(IndexedIds) >= args.top_n + 1)
        => /\ args.raised = "none"
           /\ Len(response) = args.top_n
           /\ b \notin Range(at)
           /\ \A k \in 1..(Len(response) - 1) :
                Similarity(b, at[k]) >= Similarity(b, at[k + 1])
           /\ \A i \in DOMAIN IndexedIds \ (Range(at) \cup {b}) :
                \A k \in DOMAIN response : Similarity(b, i) <= Similarity(b, at[k])

\* C18: in the result of recommend_for_user_profile and of
\* recommend_similar_businesses, of two entries with the same score the one
\* whose business comes first in the fitted feed comes first. Stated for the
\* ties that no weighting of the terms can break: entries that share no term
\* with the query, both with score 0.
C18_TiesInCorpusOrder ==
  (Called("profile") \/ Called("similar")) =>
    \A i, j \in DOMAIN response :
      (i < j /\ response[i].score = 0 /\ response[j].score = 0)
        => CorpusPos(response[i].business_id) < CorpusPos(response[j].business_id)

\* ------------------------------------------------------ the order of the merge
\* The businesses the two stages of the request returned.
Candidates == StageIds(cf_recommendations) \cup StageIds(cb_recommendations)

\* The accumulated score of a candidate, in thousandths.
Accumulated(b) ==
  LET s1 == StageScore(cf_recommendations, b)
      s2 == StageScore(cb_recommendations, b)
  IN  (IF s1 >= 0 THEN CFWeight * s1 ELSE 0) + (IF s2 >= 0 THEN CBWeight * s2 ELSE 0)

\* When a candidate entered the merge: its place in the collaborative result,
\* or, for one only the content stage returned, its place in the content
\* result after all of the collaborative result.
InsertionRank(b) ==
  IF b \in StageIds(cf_recommendations)
  THEN FirstPos([k \in DOMAIN cf_recommendations |-> cf_recommendations[k].business_id], b)
  ELSE Len(cf_recommendations)
       + FirstPos([k \in DOMAIN cb_recommendations |-> cb_recommendations[k].business_id], b)

\* Candidate a goes before candidate b.
Precedes(a, b) ==
  \/ Accumulated(a) > Accumulated(b)
  \/ Accumulated(a) = Accumulated(b) /\ InsertionRank(a) < InsertionRank(b)

\* C16: the hybrid result is fixed by the two stage results and top_n, so
\* that the same call on the same models and feeds returns the same entries
\* in the same order with the same scores: it holds the first min(top_n,
\* candidates) candidates by accumulated score, highest first, candidates of
\* equal score in insertion order (collaborative stage first, then content
\* stage), each once and with its rounded accumulated score.
C16_MergeOrderFixed ==
  Done("hybrid") =>
    /\ Len(response) = Min(args.top_n, Cardinality(Candidates))
    /\ \A k \in DOMAIN response :
         /\ response[k].business_id \in Candidates
         /\ response[k].predicted_rating = Round2(Accumulated(response[k].business_id))
    /\ \A k, l \in DOMAIN response :
         k < l => Precedes(response[k].business_id, response[l].business_id)
    /\ \A c \in Candidates \ {response[k].business_id : k \in DOMAIN response} :
         \A k \in DOMAIN response : Precedes(response[k].business_id, c)

\* A hybrid result holding two entries of equal accumulated score, with a
\* candidate left out.
C16_Witness ==
  /\ Done("hybrid")
  /\ Cardinality(Candidates) > Len(response)
  /\ \E k, l \in DOMAIN response :
       /\ k < l
       /\ Accumulated(response[k].business_id) = Accumulated(response[l].business_id)

\* ------------------------------------------------- the documents of the index
\* What a field gives to the document of a business: nothing when it is
\* missing or empty, else its lower-cased token.
FieldTokens(value) ==
  IF value \in {NoValue, ""} THEN <<>> ELSE <<Lower(value)>>

\* C19: in a fitted content index the document of a business is its name,
\* category, description and city in this order, a missing one of the last
\* three contributing nothing (no placeholder token); and fit never fails
\* because the business data lack the category, description or city.
C19_MissingFieldsAreEmpty ==
  /\ (cbFile.state = "ok" /\ cbFile.run \in Runs) =>
       \A i \in DOMAIN cbFile.model.business_profiles :
         LET biz == cbFile.model.business_profiles[i]
         IN  cbFile.model.tfidf_matrix[i]
               = <<biz.name>> \o FieldTokens(biz.category)
                   \o FieldTokens(biz.description) \o FieldTokens(biz.city)
  /\ \A r \in Runs :
       (tasks[r].pc = "failed" /\ tasks[r].error = "KeyError")
         => {"category", "description", "city"} \subseteq tasks[r].businesses_df.columns

\* ------------------------------------------------------------ the user profile
\* The reviews and businesses a profile is built from.
ProfileReviews == FetchReviewsAsDataframe(mongo.reviews).rows
ProfileBusinesses == FetchBusinessesAsDataframe(mongo.businesses).rows

\* The reviews of the feed by the user of the call.
ReviewsOfCaller == {i \in DOMAIN ProfileReviews : ProfileReviews[i].user_id = args.user_id}

\* The category or city (col) of the business of review i; NoValue when the
\* business feed does not hold the business.
KeyOfReview(i, col) ==
  LET rows == {k \in DOMAIN ProfileBusinesses :
                 ProfileBusinesses[k].business_id = ProfileReviews[i].business_id}
  IN  IF rows = {} THEN NoValue
      ELSE ProfileBusinesses[CHOOSE k \in rows : \A m \in rows : k <= m][col]

\* The reviews of the caller that count for a key, and the sum of their
\* ratings.
ReviewsFor(col, key) == {i \in ReviewsOfCaller : KeyOfReview(i, col) = key}
RatingSum(col, key) ==
  SumOver([i \in DOMAIN ProfileReviews |-> ProfileReviews[i].rating], ReviewsFor(col, key))

\* A list of keys is the keys of the caller's reviews, each once, by rating
\* sum, largest first.
BySumOfRatings(col, keys) ==
  /\ Range(keys) = {KeyOfReview(i, col) : i \in ReviewsOfCaller} \ {NoValue}
  /\ \A k, l \in DOMAIN keys :
       k < l => ( /\ keys[k] # keys[l]
                  /\ RatingSum(col, keys[k]) >= RatingSum(col, keys[l]) )

\* C20: build_user_profile orders preferred_categories and preferred_cities
\* by the sum of the ratings the user gave to businesses of the category
\* (city), largest sum first, one addend per review, a review of a business
\* the business feed does not hold counting for nothing.
C20_ProfileBySumOfRatings ==
  (Called("profile") /\ args.user_id # 0) =>
    /\ BySumOfRatings("category", args.user_profile.preferred_categories)
    /\ BySumOfRatings("city", args.user_profile.preferred_cities)

\* A key with fewer reviews goes before a key with more.
FewerReviewsFirst(col, keys) ==
  \E k, l \in DOMAIN keys :
    /\ k < l
    /\ Cardinality(ReviewsFor(col, keys[k])) < Cardinality(ReviewsFor(col, keys[l]))
    /\ RatingSum(col, keys[k]) > RatingSum(col, keys[l])

\* A profile where a key with fewer reviews and a larger rating sum goes
\* before a key with more reviews, built from a feed with a review of a
\* business the business feed does not hold.
C20_Witness ==
  /\ Called("profile") /\ args.user_id # 0
  /\ \E i \in ReviewsOfCaller :
       \A k \in DOMAIN ProfileBusinesses :
         ProfileBusinesses[k].business_id # ProfileReviews[i].business_id
  /\ \/ FewerReviewsFirst("category", args.user_profile.preferred_categories)
     \/ FewerReviewsFirst("city", args.user_profile.preferred_cities)

\* ------------------------------------------------------ the answer of retrain
\* C21: POST /retrain answers 200 with status 'success' only if the
\* train_model run of that call fitted and saved both models; a call whose
\* run was skipped for too little data does not answer success.
C21_SuccessMeansTrained ==
  \A r \in Runs :
    (tasks[r].via = "retrain" /\ tasks[r].answer = 200)
      => (tasks[r].pc = "done" /\ tasks[r].wrote = {"cf", "cb"})

\* ------------------------------------------------------------------ the webhook
\* A step starts a training thread for a webhook.
WebhookStartsRun ==
  \E r \in Runs : tasks[r].pc = "none" /\ tasks'[r].pc # "none" /\ tasks'[r].via = "webhook"

\* The request the handler has just answered came with the expected secret
\* and a payload whose event and data are there and not empty, the event
\* name starting with 'review.' or 'serviceReview.'.
ReviewWebhook(request) ==
  /\ request.secret = "default-webhook-secret"
  /\ request.payload.object
  /\ request.payload.event \notin {<<>>, <<"">>}
  /\ request.payload.data \notin {"None", "{}"}
  /\ Len(request.payload.event) >= 2
  /\ request.payload.event[1] \in {"review", "serviceReview"}

\* C22: a webhook request starts a training thread only if its secret is the
\* expected one and its payload has a non-empty event and data, the event
\* name starting with 'review.' or 'serviceReview.'. A request with a wrong
\* or missing secret is answered 401; one that passes the secret check with
\* a payload that lacks event or data is answered 400; neither starts
\* training.
C22_WebhookStartsOnlyChecked ==
  [][ /\ WebhookStartsRun => ReviewWebhook(webhook')
      /\ webhook' # webhook =>
           /\ webhook'.secret # "default-webhook-secret" =>
                (webhook'.status = 401 /\ tasks' = tasks)
           /\ ( /\ webhook'.secret = "default-webhook-secret"
                /\ webhook'.payload.object
                /\ \/ webhook'.payload.event \in {<<>>, <<"">>}
                   \/ webhook'.payload.data \in {"None", "{}"} ) =>
                (webhook'.status = 400 /\ tasks' = tasks) ]_vars

\* A webhook was refused with 400 after an earlier one had started a
\* training thread.
C22_Witness ==
  /\ webhook.status = 400
  /\ \E r \in Runs : tasks[r].via = "webhook"

====
